---- MODULE Spec2Model ----
(***************************************************************************)
(* updateFields (tsdav-utils): a record text is parsed into a jCal tree,   *)
(* the update target is located, every entry of the field map is upserted  *)
(* on the target and the whole tree is serialized again.                   *)
(*                                                                         *)
(* A record text is a sequence of content lines.  A content line           *)
(* "NAME:VALUE" is the pair <<NAME, VALUE>>; a line holding neither ":"    *)
(* nor ";" is the 1-tuple <<line>>.  The empty text is << >>.              *)
(* A jCal component is [name, props, comps]; a jCal property is            *)
(* [name, type, value]; a jCal value is [str |-> s] (a string),            *)
(* [num |-> n] (a number) or [nan |-> TRUE].                               *)
(***************************************************************************)
EXTENDS Integers, Sequences, FiniteSets, TLC

VARIABLES
  calendarObject,   \* the caller's record argument
  fields,           \* the caller's field map, as Object.entries lists it
  pc,               \* the step updateFields is at
  icalString,       \* the extracted text
  component,        \* the tree: the root ICAL.Component over jcalData
  actualComponent,  \* the update target, a position in the tree
  idx,              \* the entry the loop is at
  outcome,          \* what the call returned or threw
  calls,            \* history: the steps taken so far
  parsed,           \* history: the tree as the parser built it
  previous          \* history: the caller's earlier calls and their outcomes

vars == <<calendarObject, fields, pc, icalString, component, actualComponent,
          idx, outcome, calls, parsed, previous>>

-----------------------------------------------------------------------------
(* Strings *)

Char(s, i) == SubSeq(s, i, i)

Tail1(s) == SubSeq(s, 2, Len(s))

\* Index of the first occurrence of the character c in s at or after
\* position i; 0 when there is none.
RECURSIVE IndexFrom(_, _, _)
IndexFrom(c, s, i) ==
  IF i > Len(s) THEN 0 ELSE IF Char(s, i) = c THEN i ELSE IndexFrom(c, s, i + 1)

IndexOf(c, s) == IndexFrom(c, s, 1)

LowerChar(c) ==
  CASE c = "A" -> "a" [] c = "B" -> "b" [] c = "C" -> "c" [] c = "D" -> "d"
    [] c = "E" -> "e" [] c = "F" -> "f" [] c = "G" -> "g" [] c = "H" -> "h"
    [] c = "I" -> "i" [] c = "J" -> "j" [] c = "K" -> "k" [] c = "L" -> "l"
    [] c = "M" -> "m" [] c = "N" -> "n" [] c = "O" -> "o" [] c = "P" -> "p"
    [] c = "Q" -> "q" [] c = "R" -> "r" [] c = "S" -> "s" [] c = "T" -> "t"
    [] c = "U" -> "u" [] c = "V" -> "v" [] c = "W" -> "w" [] c = "X" -> "x"
    [] c = "Y" -> "y" [] c = "Z" -> "z"
    [] OTHER -> c

UpperChar(c) ==
  CASE c = "a" -> "A" [] c = "b" -> "B" [] c = "c" -> "C" [] c = "d" -> "D"
    [] c = "e" -> "E" [] c = "f" -> "F" [] c = "g" -> "G" [] c = "h" -> "H"
    [] c = "i" -> "I" [] c = "j" -> "J" [] c = "k" -> "K" [] c = "l" -> "L"
    [] c = "m" -> "M" [] c = "n" -> "N" [] c = "o" -> "O" [] c = "p" -> "P"
    [] c = "q" -> "Q" [] c = "r" -> "R" [] c = "s" -> "S" [] c = "t" -> "T"
    [] c = "u" -> "U" [] c = "v" -> "V" [] c = "w" -> "W" [] c = "x" -> "X"
    [] c = "y" -> "Y" [] c = "z" -> "Z"
    [] OTHER -> c

RECURSIVE toLowerCase(_)
toLowerCase(s) ==
  IF Len(s) = 0 THEN "" ELSE LowerChar(Char(s, 1)) \o toLowerCase(Tail1(s))

RECURSIVE toUpperCase(_)
toUpperCase(s) ==
  IF Len(s) = 0 THEN "" ELSE UpperChar(Char(s, 1)) \o toUpperCase(Tail1(s))

StartsWith(s, p) == Len(s) >= Len(p) /\ SubSeq(s, 1, Len(p)) = p

\* JavaScript's s.slice(a, b) with 0 <= a <= b: the characters a .. b-1.
Slice(s, a, b) ==
  LET e == IF b > Len(s) THEN Len(s) ELSE b
  IN  IF a >= e THEN "" ELSE SubSeq(s, a + 1, e)

-----------------------------------------------------------------------------
(* ical.js design sets: the value type of a property and the conversions   *)
(* between the text of a value and its jCal form.                          *)

\* design.getDesignSet(componentName): vcard has its own set, every other
\* name (vcalendar, vevent, unknown names) uses the iCalendar set.
getDesignSet(componentName) ==
  IF componentName = "vcard" THEN "vcard" ELSE "icalendar"

\* designSet.property[name].defaultType, "unknown" for a name the set lacks.
defaultType(designSet, name) ==
  IF designSet = "icalendar"
  THEN CASE name \in {"summary", "uid", "location", "description", "status",
                      "version", "prodid", "tzid"} -> "text"
         [] name \in {"priority", "sequence"}      -> "integer"
         [] name \in {"dtstart", "dtend", "due"}   -> "date-time"
         [] name = "attendee"                      -> "cal-address"
         [] OTHER                                  -> "unknown"
  ELSE CASE name \in {"fn", "email", "version", "prodid"} -> "text"
         [] name \in {"uid", "tel"}                -> "uri"
         [] OTHER                                  -> "unknown"

\* The characters the text type escapes with a backslash when serializing.
EscapedChars(designSet) == IF designSet = "icalendar" THEN "\\;," ELSE "\\,"

\* Parsing replaces a backslash followed by an escaped character or by n, N.
RECURSIVE textFromICAL(_, _)
textFromICAL(designSet, s) ==
  IF Len(s) = 0 THEN ""
  ELSE IF /\ Char(s, 1) = "\\"
          /\ Len(s) >= 2
          /\ IndexOf(Char(s, 2), EscapedChars(designSet) \o "nN") # 0
       THEN (IF Char(s, 2) \in {"n", "N"} THEN "\n" ELSE Char(s, 2))
            \o textFromICAL(designSet, SubSeq(s, 3, Len(s)))
       ELSE Char(s, 1) \o textFromICAL(designSet, Tail1(s))

RECURSIVE textToICAL(_, _)
textToICAL(designSet, s) ==
  IF Len(s) = 0 THEN ""
  ELSE (IF Char(s, 1) = "\n" THEN "\\n"
        ELSE IF IndexOf(Char(s, 1), EscapedChars(designSet)) # 0
             THEN "\\" \o Char(s, 1)
             ELSE Char(s, 1))
       \o textToICAL(designSet, Tail1(s))

Digits == "0123456789"

\* parseInt on an unsigned text: the value of its leading digits, NaN if none.
RECURSIVE LeadingDigits(_, _)
LeadingDigits(s, acc) ==
  IF Len(s) = 0 \/ IndexOf(Char(s, 1), Digits) = 0 THEN acc
  ELSE LeadingDigits(Tail1(s), acc * 10 + (IndexOf(Char(s, 1), Digits) - 1))

parseInt(s) ==
  IF Len(s) = 0 \/ IndexOf(Char(s, 1), Digits) = 0
  THEN [nan |-> TRUE]
  ELSE [num |-> LeadingDigits(s, 0)]

RECURSIVE NatToString(_)
NatToString(n) ==
  IF n < 10 THEN Char(Digits, n + 1)
  ELSE NatToString(n \div 10) \o Char(Digits, (n % 10) + 1)

\* String(v) of a jCal value.
String(v) ==
  IF "str" \in DOMAIN v THEN v.str
  ELSE IF "num" \in DOMAIN v THEN NatToString(v.num)
  ELSE "NaN"

dateFromICAL(s) == Slice(s, 0, 4) \o "-" \o Slice(s, 4, 6) \o "-" \o Slice(s, 6, 8)

dateToICAL(s) == Slice(s, 0, 4) \o Slice(s, 5, 7) \o Slice(s, 8, 10)

\* 20120901T130000Z -> 2012-09-01T13:00:00Z
dateTimeFromICAL(s) ==
  IF Len(s) = 8 THEN dateFromICAL(s)
  ELSE Slice(s, 0, 4) \o "-" \o Slice(s, 4, 6) \o "-" \o Slice(s, 6, 8) \o "T"
       \o Slice(s, 9, 11) \o ":" \o Slice(s, 11, 13) \o ":" \o Slice(s, 13, 15)
       \o (IF Slice(s, 15, 16) = "Z" THEN "Z" ELSE "")

\* 2012-09-01T13:00:00Z -> 20120901T130000Z; a shorter text is written as is.
dateTimeToICAL(s) ==
  IF Len(s) = 10 THEN dateToICAL(s)
  ELSE IF Len(s) >= 19
  THEN Slice(s, 0, 4) \o Slice(s, 5, 7) \o Slice(s, 8, 10) \o Slice(s, 10, 13)
       \o Slice(s, 14, 16) \o Slice(s, 17, 19)
       \o (IF Slice(s, 19, 20) = "Z" THEN "Z" ELSE "")
  ELSE s

\* designSet.value[type].fromICAL: the jCal value of a value text.
fromICAL(designSet, type, text) ==
  CASE type = "text"      -> [str |-> textFromICAL(designSet, text)]
    [] type = "integer"   -> parseInt(text)
    [] type = "date-time" -> [str |-> dateTimeFromICAL(text)]
    [] OTHER              -> [str |-> text]

\* designSet.value[type].toICAL: the value text of a jCal value.
toICAL(designSet, type, v) ==
  CASE type = "text"      -> textToICAL(designSet, String(v))
    [] type = "integer"   -> String(v)
    [] type = "date-time" -> dateTimeToICAL(String(v))
    [] OTHER              -> String(v)

\* Types whose values are decorated (wrapped in a value object) when set.
isDecorated(type) == type = "date-time"

\* Time.fromString rejects a text of 11 to 18 characters as a date-time.
decorateThrows(type, s) == isDecorated(type) /\ Len(s) > 10 /\ Len(s) < 19

-----------------------------------------------------------------------------
(* ical.js parser: ICAL.parse(input), a stack of open components driven by *)
(* the content lines.  A line may carry a VALUE parameter as its third     *)
(* element: <<NAME, VALUE, TYPE>> is "NAME;VALUE=TYPE:VALUE".              *)

NoError == [none |-> TRUE]

Thrown(name, message) == [name |-> name, message |-> message]

IsThrown(e) == "message" \in DOMAIN e

NewComponent(name) == [name |-> name, props |-> << >>, comps |-> << >>]

NewParseState ==
  [stack |-> << >>, root |-> << >>, designSet |-> "", error |-> NoError]

\* The jCal property of a content line once its name is lowercased: its
\* type is the VALUE parameter or the design set's default, its value the
\* converted text.
typedProperty(designSet, name, type, text) ==
  [name |-> name, type |-> type, value |-> fromICAL(designSet, type, text)]

parseProperty(designSet, name, line) ==
  typedProperty(designSet, name,
                IF Len(line) >= 3 THEN toLowerCase(line[3])
                ELSE defaultType(designSet, name),
                line[2])

\* Variant: a component keeps its name in the letter case of the text.
handleNamedLineKeepingCase(name, n, line, st) ==
  IF name = "begin"
  THEN [st EXCEPT
          !.stack = Append(@, NewComponent(line[2])),
          !.designSet = IF @ = "" THEN getDesignSet(toLowerCase(line[2]))
                        ELSE @]
  ELSE IF name = "end"
  THEN IF n = 0 THEN st
       ELSE IF n = 1
       THEN [st EXCEPT !.stack = << >>,
                       !.root = Append(@, st.stack[1])]
       ELSE [st EXCEPT !.stack =
               SubSeq(@, 1, n - 2)
               \o << [@[n - 1] EXCEPT !.comps = Append(@, st.stack[n])] >>]
  ELSE IF n = 0
  THEN [st EXCEPT !.error =
          Thrown("TypeError",
                 "Cannot read properties of undefined (reading 'property')")]
  ELSE [st EXCEPT !.stack[n].props =
          Append(@, parseProperty(st.designSet, name, line))]

\* A line "name:..." with its name lowercased, n components being open.
handleNamedLine(name, n, line, st) ==
  IF name = "begin"
  THEN [st EXCEPT
          !.stack = Append(@, NewComponent(toLowerCase(line[2]))),
          !.designSet = IF @ = "" THEN getDesignSet(toLowerCase(line[2]))
                        ELSE @]
  ELSE IF name = "end"
  THEN IF n = 0 THEN st   \* no such text is among the modelled inputs
       ELSE IF n = 1
       THEN [st EXCEPT !.stack = << >>,
                       !.root = Append(@, st.stack[1])]
       ELSE [st EXCEPT !.stack =
               SubSeq(@, 1, n - 2)
               \o << [@[n - 1] EXCEPT !.comps = Append(@, st.stack[n])] >>]
  ELSE IF n = 0
  THEN [st EXCEPT !.error =
          Thrown("TypeError",
                 "Cannot read properties of undefined (reading 'property')")]
  ELSE [st EXCEPT !.stack[n].props =
          Append(@, parseProperty(st.designSet, name, line))]

handleContentLine(line, st) ==
  IF Len(line) < 2
  THEN [st EXCEPT !.error =
          Thrown("ParserError",
                 "invalid line (no token \";\" or \":\") \"" \o line[1] \o "\"")]
  ELSE handleNamedLine(toLowerCase(line[1]), Len(st.stack), line, st)

RECURSIVE parseLines(_, _, _)
parseLines(lines, i, st) ==
  IF IsThrown(st.error) \/ i > Len(lines) THEN st
  ELSE parseLines(lines, i + 1, handleContentLine(lines[i], st))

\* The parser's result once every line is handled: a component left open is
\* an error; a text with one root component yields that component.
parseEnd(st) ==
  IF IsThrown(st.error) THEN [error |-> st.error]
  ELSE IF Len(st.stack) > 0
  THEN [error |-> Thrown("ParserError",
                         "invalid ical body. component began but did not end")]
  ELSE IF Len(st.root) = 1 THEN [jCal |-> st.root[1]]
  ELSE [array |-> st.root]

\* ICAL.parse: [error |-> e] when the parser throws, else [jCal |-> root].
parse(input) == parseEnd(parseLines(input, 1, NewParseState))

-----------------------------------------------------------------------------
(* ical.js serializer: Component.toString() *)

RECURSIVE Flatten(_)
Flatten(seqs) ==
  IF Len(seqs) = 0 THEN << >> ELSE Head(seqs) \o Flatten(Tail(seqs))

\* One content line; the VALUE parameter is written when the property's type
\* is not the default of its name in the design set.
stringifyProperty(p, designSet) ==
  LET text == toICAL(designSet, p.type, p.value)
  IN  IF p.type = defaultType(designSet, p.name)
      THEN <<toUpperCase(p.name), text>>
      ELSE <<toUpperCase(p.name), text, toUpperCase(p.type)>>

RECURSIVE stringifyComponent(_, _)
stringifyComponent(c, designSet) ==
  << <<"BEGIN", toUpperCase(c.name)>> >>
  \o [i \in 1..Len(c.props) |-> stringifyProperty(c.props[i], designSet)]
  \o Flatten([i \in 1..Len(c.comps) |-> stringifyComponent(c.comps[i], designSet)])
  \o << <<"END", toUpperCase(c.name)>> >>

\* Variant: a root that is no container is written inside a VCALENDAR.
toStringWrappedInContainer(c) ==
  IF c.name = "vcalendar" THEN stringifyComponent(c, getDesignSet(c.name))
  ELSE << <<"BEGIN", "VCALENDAR">> >>
       \o stringifyComponent(c, getDesignSet(c.name))
       \o << <<"END", "VCALENDAR">> >>

\* component.toString(): the whole tree under the design set of its root.
toString(c) == stringifyComponent(c, getDesignSet(c.name))

-----------------------------------------------------------------------------
(* ical.js Component operations used by updateFields *)

\* Index of the first element of seq whose name is name; 0 when there is none.
FirstNamed(seq, name) ==
  LET hits == {i \in 1..Len(seq) : seq[i].name = name}
  IN  IF hits = {} THEN 0 ELSE CHOOSE i \in hits : \A j \in hits : i <= j

\* component.getFirstSubcomponent(name): index of the child, 0 for null.
getFirstSubcomponent(c, name) == FirstNamed(c.comps, name)

\* component.getFirstProperty(name), name not empty: index, 0 for null.
getFirstProperty(c, name) == FirstNamed(c.props, name)

\* Variant: a property is added whether or not the name is there already.
updatePropertyWithValueAlwaysAdding(c, name, value) ==
  LET type == defaultType("icalendar", name)
  IN  IF decorateThrows(type, value)
      THEN [error |-> Thrown("Error", "invalid date-time value: \"" \o value \o "\"")]
      ELSE [component |->
              [c EXCEPT !.props =
                 Append(@, [name |-> name, type |-> type, value |-> [str |-> value]])]]

\* Variant: every property of that name is removed before one is added.
updatePropertyWithValueReplacingAll(c, name, value) ==
  LET i    == getFirstProperty(c, name)
      type == IF i # 0 THEN c.props[i].type ELSE defaultType("icalendar", name)
  IN  IF decorateThrows(type, value)
      THEN [error |-> Thrown("Error", "invalid date-time value: \"" \o value \o "\"")]
      ELSE [component |->
              [c EXCEPT !.props =
                 Append(SelectSeq(@, LAMBDA p : p.name # name),
                        [name |-> name, type |-> type, value |-> [str |-> value]])]]

\* Variant: a property that is there already keeps its value.
updatePropertyWithValueOnlyIfMissing(c, name, value) ==
  LET i    == getFirstProperty(c, name)
      type == IF i # 0 THEN c.props[i].type ELSE defaultType("icalendar", name)
  IN  IF decorateThrows(type, value)
      THEN [error |-> Thrown("Error", "invalid date-time value: \"" \o value \o "\"")]
      ELSE IF i # 0
      THEN [component |-> c]
      ELSE [component |->
              [c EXCEPT !.props =
                 Append(@, [name |-> name, type |-> type, value |-> [str |-> value]])]]

\* Variant: an existing property is removed and added again at the end.
updatePropertyWithValueMovingToEnd(c, name, value) ==
  LET i    == getFirstProperty(c, name)
      type == IF i # 0 THEN c.props[i].type ELSE defaultType("icalendar", name)
      rest == IF i # 0
              THEN SubSeq(c.props, 1, i - 1) \o SubSeq(c.props, i + 1, Len(c.props))
              ELSE c.props
  IN  IF decorateThrows(type, value)
      THEN [error |-> Thrown("Error", "invalid date-time value: \"" \o value \o "\"")]
      ELSE [component |->
              [c EXCEPT !.props =
                 Append(rest, [name |-> name, type |-> type, value |-> [str |-> value]])]]

\* Variant: every property of that name gets the value.
updatePropertyWithValueOnEveryInstance(c, name, value) ==
  LET i    == getFirstProperty(c, name)
      type == IF i # 0 THEN c.props[i].type ELSE defaultType("icalendar", name)
  IN  IF decorateThrows(type, value)
      THEN [error |-> Thrown("Error", "invalid date-time value: \"" \o value \o "\"")]
      ELSE IF i # 0
      THEN [component |->
              [c EXCEPT !.props =
                 [j \in 1..Len(c.props) |->
                    IF c.props[j].name = name
                    THEN [c.props[j] EXCEPT !.value = [str |-> value]]
                    ELSE c.props[j]]]]
      ELSE [component |->
              [c EXCEPT !.props =
                 Append(@, [name |-> name, type |-> type, value |-> [str |-> value]])]]

\* component.updatePropertyWithValue(name, value): the first property of
\* that name gets the value as its only value; when there is none a property
\* is created (outside any component, so typed by the iCalendar set) and
\* appended.  Setting the value of a decorated type may throw.
updatePropertyWithValue(c, name, value) ==
  LET i    == getFirstProperty(c, name)
      type == IF i # 0 THEN c.props[i].type ELSE defaultType("icalendar", name)
  IN  IF decorateThrows(type, value)
      THEN [error |-> Thrown("Error", "invalid date-time value: \"" \o value \o "\"")]
      ELSE IF i # 0
      THEN [component |-> [c EXCEPT !.props[i].value = [str |-> value]]]
      ELSE [component |->
              [c EXCEPT !.props =
                 Append(@, [name |-> name, type |-> type, value |-> [str |-> value]])]]

-----------------------------------------------------------------------------
(* JavaScript values handed to updateFields *)

JSString(text) == [string |-> text]

JSNumber(n) == [number |-> n]

JSNull == [null |-> TRUE]

Undefined == [undefined |-> TRUE]

IsString(v) == "string" \in DOMAIN v

\* Variant: only a missing value is refused (icalString == null).
FalsyOnlyMissing(v) == "undefined" \in DOMAIN v \/ "null" \in DOMAIN v

\* !v
Falsy(v) ==
  \/ "undefined" \in DOMAIN v
  \/ "null" \in DOMAIN v
  \/ ("number" \in DOMAIN v /\ v.number = 0)
  \/ (IsString(v) /\ Len(v.string) = 0)

\* The outcome of a call: still running, a returned text, or a thrown error.
Pending == [pending |-> TRUE]

Returned(text) == [returned |-> text]

Threw(e) == [threw |-> e]

IsReturned(o) == "returned" \in DOMAIN o

IsThrew(o) == "threw" \in DOMAIN o

Null == [null |-> TRUE]

-----------------------------------------------------------------------------
(* Inputs: record texts, caller records and field maps *)

MaxChildren == 2

MaxFields == 2

Block(name, propLines, childBlocks) ==
  << <<"BEGIN", name>> >> \o propLines \o Flatten(childBlocks)
  \o << <<"END", name>> >>

\* Property lines of the node under study: none; plain; a repeated name in
\* mixed case with an escaped comma; typed values and a vendor extension.
PropChoices ==
  { << >>,
    << <<"UID", "1">>, <<"SUMMARY", "Original">> >>,
    << <<"Summary", "first\\, one">>, <<"UID", "1">>, <<"SUMMARY", "Second">> >>,
    << <<"DTSTART", "20250128T100000Z">>, <<"PRIORITY", "05">>,
       <<"X-CUSTOM-FIELD", "old">>, <<"SUMMARY", "Typed">> >> }

SiblingProps == << <<"UID", "2">>, <<"SUMMARY", "Sibling">> >>

ContainerProps == << <<"VERSION", "2.0">>, <<"SUMMARY", "Calendar">> >>

ChildKinds == {"VEVENT", "VTODO", "VJOURNAL", "X-GROUP"}

KindSeqs == UNION {[1..n -> ChildKinds] : n \in 0..MaxChildren}

\* A child block; an X-GROUP child nests an event one level deeper.
ChildBlock(kind, propLines) ==
  Block(kind, propLines,
        IF kind = "X-GROUP" THEN << Block("VEVENT", SiblingProps, << >>) >>
        ELSE << >>)

\* A well-formed text with one root: under a VCALENDAR root the first child
\* holds the chosen property lines, otherwise the root holds them.
RecordText(rootName, propLines, kinds) ==
  IF rootName = "VCALENDAR"
  THEN Block(rootName, ContainerProps,
             [i \in 1..Len(kinds) |->
                ChildBlock(kinds[i], IF i = 1 THEN propLines ELSE SiblingProps)])
  ELSE Block(rootName, propLines,
             [i \in 1..Len(kinds) |-> ChildBlock(kinds[i], SiblingProps)])

StandaloneNames == {"VCARD", "VEVENT", "X-ROOT"}

\* Containers with every sequence of children; standalone roots without a
\* child or with one event child.
ValidTexts ==
  { RecordText("VCALENDAR", p, k) : p \in PropChoices, k \in KindSeqs }
  \cup { RecordText(r, p, k) : r \in StandaloneNames, p \in PropChoices,
                               k \in {<< >>, <<"VEVENT">>} }

\* Containers and children whose names are written in lower or mixed case.
MixedCaseTexts ==
  { Block(r, ContainerProps, << ChildBlock(k, p) >>) :
      r \in {"vcalendar", "VCalendar"}, k \in {"VEvent", "vtodo", "X-GROUP"},
      p \in PropChoices }

\* Texts the parser rejects: a line without ":", a component that never
\* ends, a property outside any component.
MalformedTexts ==
  { << <<"INVALID ICAL DATA">> >>,
    << <<"BEGIN", "VCALENDAR">>, <<"BEGIN", "VEVENT">>, <<"SUMMARY", "x">>,
       <<"END", "VEVENT">> >>,
    << <<"SUMMARY", "x">>, <<"BEGIN", "VCARD">>, <<"END", "VCARD">> >> }

EmptyText == << >>

Texts == ValidTexts \cup MixedCaseTexts \cup MalformedTexts \cup {EmptyText}

\* Caller records: a raw text, or a wrapper object with etag and url whose
\* data field is a text, is absent, or holds something that is no text.
Wrapper(data) == [data |-> data, etag |-> "abc123", url |-> "test.ics"]

WrapperWithoutData == [etag |-> "abc123", url |-> "test.ics"]

CalendarObjects ==
  { JSString(t) : t \in Texts }
  \cup { Wrapper(JSString(t)) : t \in Texts }
  \cup { Wrapper(d) : d \in {Undefined, JSNull, JSNumber(0), JSNumber(123)} }
  \cup { WrapperWithoutData }

\* Entries of field maps.  Keys are property names in any letter case: a
\* name the records hold, the same name in lower case, a vendor extension,
\* and a date-time name with a value in iCalendar text form.
Entries ==
  { <<"SUMMARY", "Updated">>, <<"summary", "a,b">>,
    <<"X-CUSTOM-FIELD", "value123">>, <<"DTSTART", "20250130T140000Z">> }

\* Object.entries(fields): the entries in insertion order, keys distinct.
FieldMaps ==
  { f \in UNION {[1..n -> Entries] : n \in 0..MaxFields} :
      \A i, j \in 1..Len(f) : i # j => f[i][1] # f[j][1] }

-----------------------------------------------------------------------------
(* updateFields *)

InvalidInputMessage ==
  "Invalid input: calendarObject must be a string or object with \"data\" field"

ParseFailurePrefix == "Failed to parse iCal data: "

NoUpdatableComponentMessage == "No VEVENT, VTODO, or VJOURNAL found in VCALENDAR"

\* Variant: an object counts as a wrapper only when it has a url.
ExtractIcalStringRequiringUrl(obj) ==
  IF IsString(obj) THEN obj
  ELSE IF "data" \in DOMAIN obj /\ "url" \in DOMAIN obj THEN obj.data
  ELSE Undefined

\* typeof calendarObject === 'string' ? calendarObject : calendarObject.data
ExtractIcalString(obj) ==
  IF IsString(obj) THEN obj
  ELSE IF "data" \in DOMAIN obj THEN obj.data
  ELSE Undefined

\* ICAL.parse(icalString); new ICAL.Component(jcalData).  A value that is no
\* string has no search method, which the parser calls first.
ParseInput(v) ==
  IF IsString(v) THEN parse(v.string)
  ELSE [error |-> Thrown("TypeError", "buffer.search is not a function")]

\* Variant: the first child of any of the three kinds, in document order.
FirstUpdatableChildInDocumentOrder(c) ==
  LET hits == {i \in 1..Len(c.comps) :
                 c.comps[i].name \in {"vevent", "vtodo", "vjournal"}}
  IN  IF hits = {} THEN 0 ELSE CHOOSE i \in hits : \A j \in hits : i <= j

\* component.getFirstSubcomponent('vevent') || ...('vtodo') || ...('vjournal')
FirstUpdatableChild(c) ==
  IF getFirstSubcomponent(c, "vevent") # 0 THEN getFirstSubcomponent(c, "vevent")
  ELSE IF getFirstSubcomponent(c, "vtodo") # 0 THEN getFirstSubcomponent(c, "vtodo")
  ELSE getFirstSubcomponent(c, "vjournal")

\* Variant: every root but a vcard is unwrapped.
IsContainerUnlessVcard(c) == c.name # "vcard"

IsContainer(c) == c.name = "vcalendar"

\* Variant: a container without an updatable child is updated itself.
LocateTargetFallingBackToRoot(c) ==
  IF IsContainer(c) /\ FirstUpdatableChild(c) # 0
  THEN [path |-> <<FirstUpdatableChild(c)>>]
  ELSE [path |-> << >>]

\* Variant: when no immediate child is updatable, the children of the
\* children are searched as well.
LocateTargetSearchingDeeper(c) ==
  IF IsContainer(c)
  THEN IF FirstUpdatableChild(c) # 0
       THEN [path |-> <<FirstUpdatableChild(c)>>]
       ELSE LET hits == {i \in 1..Len(c.comps) : FirstUpdatableChild(c.comps[i]) # 0}
            IN  IF hits = {} THEN Null
                ELSE LET i == CHOOSE i \in hits : \A j \in hits : i <= j
                     IN  [path |-> <<i, FirstUpdatableChild(c.comps[i])>>]
  ELSE [path |-> << >>]

\* The path of actualComponent in the tree: << >> is the root, <<i>> the i-th
\* child.  Null when the container has no updatable child.
LocateTarget(c) ==
  IF IsContainer(c)
  THEN IF FirstUpdatableChild(c) = 0 THEN Null
       ELSE [path |-> <<FirstUpdatableChild(c)>>]
  ELSE [path |-> << >>]

RECURSIVE NodeAt(_, _)
NodeAt(c, path) ==
  IF Len(path) = 0 THEN c ELSE NodeAt(c.comps[path[1]], Tail(path))

\* Variant: the updated target takes the place of the whole tree.
ReplaceAtDroppingTree(c, path, node) == node

\* Variant: every child of the target's kind takes the updated target.
ReplaceAtEveryChildOfKind(c, path, node) ==
  IF Len(path) = 0 THEN node
  ELSE [c EXCEPT !.comps =
          [i \in 1..Len(c.comps) |->
             IF c.comps[i].name = node.name THEN node ELSE c.comps[i]]]

RECURSIVE ReplaceAt(_, _, _)
ReplaceAt(c, path, node) ==
  IF Len(path) = 0 THEN node
  ELSE [c EXCEPT !.comps[path[1]] = ReplaceAt(@, Tail(path), node)]

\* Variant: the engine's message is left out.
ParseFailureWithoutDiagnostic(error) == Thrown("Error", "Failed to parse iCal data")

\* throw new Error(`Failed to parse iCal data: ${error.message}`)
ParseFailure(error) == Thrown("Error", ParseFailurePrefix \o error.message)

\* Variant: the key is used in the letter case the caller wrote.
UpsertEntryKeepingCase(node, entry) ==
  updatePropertyWithValue(node, entry[1], entry[2])

\* actualComponent.updatePropertyWithValue(key.toLowerCase(), value)
UpsertEntry(node, entry) ==
  updatePropertyWithValue(node, toLowerCase(entry[1]), entry[2])

\* Variant: the loop is left before its last turn.
LoopFinishedBeforeLast == idx >= Len(fields)

\* Variant: the loop is left after its first turn.
LoopFinishedAfterFirst == idx > 1 \/ idx > Len(fields)

\* The for-of loop has gone through every entry.
LoopFinished == idx > Len(fields)

Init ==
  /\ calendarObject \in CalendarObjects
  /\ fields \in FieldMaps
  /\ pc = "extract"
  /\ icalString = Undefined
  /\ component = Null
  /\ actualComponent = Null
  /\ idx = 0
  /\ outcome = Pending
  /\ calls = << >>
  /\ parsed = Null
  /\ previous = << >>

\* Variant: the text of the caller's last call is kept and used again.
ExtractReusingLastText ==
  /\ pc = "extract"
  /\ icalString' = IF Len(previous) > 0
                   THEN ExtractIcalString(previous[Len(previous)].calendarObject)
                   ELSE ExtractIcalString(calendarObject)
  /\ IF Falsy(icalString')
     THEN /\ outcome' = Threw(Thrown("Error", InvalidInputMessage))
          /\ pc' = "done"
     ELSE /\ outcome' = outcome
          /\ pc' = "parse"
  /\ calls' = Append(calls, "extract")
  /\ UNCHANGED <<calendarObject, fields, component, actualComponent, idx, parsed, previous>>

\* Variant: the extracted value is handed to the parser unchecked.
ExtractWithoutCheck ==
  /\ pc = "extract"
  /\ icalString' = ExtractIcalString(calendarObject)
  /\ outcome' = outcome
  /\ pc' = "parse"
  /\ calls' = Append(calls, "extract")
  /\ UNCHANGED <<calendarObject, fields, component, actualComponent, idx, parsed, previous>>

\* 1. Extract iCal string from input
Extract ==
  /\ pc = "extract"
  /\ icalString' = ExtractIcalString(calendarObject)
  /\ IF Falsy(icalString')
     THEN /\ outcome' = Threw(Thrown("Error", InvalidInputMessage))
          /\ pc' = "done"
     ELSE /\ outcome' = outcome
          /\ pc' = "parse"
  /\ calls' = Append(calls, "extract")
  /\ UNCHANGED <<calendarObject, fields, component, actualComponent, idx, parsed, previous>>

\* 2. Parse iCal string to Component
Parse ==
  /\ pc = "parse"
  /\ \E r \in {ParseInput(icalString)} :
         IF "error" \in DOMAIN r
         THEN /\ outcome' = Threw(ParseFailure(r.error))
              /\ pc' = "done"
              /\ component' = component
              /\ parsed' = parsed
         ELSE /\ "jCal" \in DOMAIN r
              /\ component' = r.jCal
              /\ parsed' = r.jCal
              /\ outcome' = outcome
              /\ pc' = "locate"
  /\ calls' = Append(calls, "parse")
  /\ UNCHANGED <<calendarObject, fields, icalString, actualComponent, idx, previous>>

\* Variant: with no entry to apply, a container without an updatable child
\* is let through and serialized as it is.
LocateSkippedForEmptyMap ==
  /\ pc = "locate"
  /\ actualComponent' = IF Len(fields) = 0 /\ LocateTarget(component) = Null
                        THEN [path |-> << >>]
                        ELSE LocateTarget(component)
  /\ IF actualComponent' = Null
     THEN /\ outcome' = Threw(Thrown("Error", NoUpdatableComponentMessage))
          /\ pc' = "done"
     ELSE /\ outcome' = outcome
          /\ pc' = "update"
  /\ idx' = 1
  /\ calls' = Append(calls, "locate")
  /\ UNCHANGED <<calendarObject, fields, icalString, component, parsed, previous>>

\* Variant: any event, task or journal child may become the target.
LocateAnyUpdatableChild ==
  /\ pc = "locate"
  /\ IF LocateTarget(component) = Null \/ ~IsContainer(component)
     THEN actualComponent' = LocateTarget(component)
     ELSE \E i \in 1..Len(component.comps) :
            /\ component.comps[i].name \in {"vevent", "vtodo", "vjournal"}
            /\ actualComponent' = [path |-> <<i>>]
  /\ IF actualComponent' = Null
     THEN /\ outcome' = Threw(Thrown("Error", NoUpdatableComponentMessage))
          /\ pc' = "done"
     ELSE /\ outcome' = outcome
          /\ pc' = "update"
  /\ idx' = 1
  /\ calls' = Append(calls, "locate")
  /\ UNCHANGED <<calendarObject, fields, icalString, component, parsed, previous>>

\* 3. Find the actual component to update
Locate ==
  /\ pc = "locate"
  /\ actualComponent' = LocateTarget(component)
  /\ IF actualComponent' = Null
     THEN /\ outcome' = Threw(Thrown("Error", NoUpdatableComponentMessage))
          /\ pc' = "done"
     ELSE /\ outcome' = outcome
          /\ pc' = "update"
  /\ idx' = 1
  /\ calls' = Append(calls, "locate")
  /\ UNCHANGED <<calendarObject, fields, icalString, component, parsed, previous>>

\* Variant: an entry the engine refuses is skipped.
UpdateSkippingFailedEntry ==
  /\ pc = "update"
  /\ ~LoopFinished
  /\ \E r \in {UpsertEntry(NodeAt(component, actualComponent.path), fields[idx])} :
         IF "error" \in DOMAIN r
         THEN component' = component
         ELSE component' = ReplaceAt(component, actualComponent.path, r.component)
  /\ outcome' = outcome
  /\ pc' = pc
  /\ idx' = idx + 1
  /\ calls' = Append(calls, "update")
  /\ UNCHANGED <<calendarObject, fields, icalString, actualComponent, parsed, previous>>

\* 4. One turn of the loop over Object.entries(fields)
Update ==
  /\ pc = "update"
  /\ ~LoopFinished
  /\ \E r \in {UpsertEntry(NodeAt(component, actualComponent.path), fields[idx])} :
         IF "error" \in DOMAIN r
         THEN /\ outcome' = Threw(r.error)
              /\ pc' = "done"
              /\ component' = component
         ELSE /\ component' = ReplaceAt(component, actualComponent.path, r.component)
              /\ outcome' = outcome
              /\ pc' = pc
  /\ idx' = idx + 1
  /\ calls' = Append(calls, "update")
  /\ UNCHANGED <<calendarObject, fields, icalString, actualComponent, parsed, previous>>

\* Variant: only the update target is serialized.
SerializeTargetOnly ==
  /\ pc = "update"
  /\ LoopFinished
  /\ outcome' = Returned(toString(NodeAt(component, actualComponent.path)))
  /\ pc' = "done"
  /\ calls' = Append(calls, "serialize")
  /\ UNCHANGED <<calendarObject, fields, icalString, component, actualComponent, idx,
                 parsed, previous>>

\* Variant: the new text is also stored in the caller's wrapper.
SerializeWritingBack ==
  /\ pc = "update"
  /\ LoopFinished
  /\ outcome' = Returned(toString(component))
  /\ calendarObject' = IF IsString(calendarObject) THEN calendarObject
                       ELSE [calendarObject EXCEPT !.data = JSString(toString(component))]
  /\ pc' = "done"
  /\ calls' = Append(calls, "serialize")
  /\ UNCHANGED <<fields, icalString, component, actualComponent, idx, parsed, previous>>

\* 5. Serialize back to iCal string
Serialize ==
  /\ pc = "update"
  /\ LoopFinished
  /\ outcome' = Returned(toString(component))
  /\ pc' = "done"
  /\ calls' = Append(calls, "serialize")
  /\ UNCHANGED <<calendarObject, fields, icalString, component, actualComponent, idx,
                 parsed, previous>>

Next == Extract \/ Parse \/ Locate \/ Update \/ Serialize

Spec == Init /\ [][Next]_vars

-----------------------------------------------------------------------------
(* A caller that calls updateFields a second time once the first call is   *)
(* over.  Nothing of the first call is left but what the caller holds: its *)
(* arguments and the outcome.                                              *)

FirstCallOver == pc = "done" /\ previous = << >>

\* The locals of a fresh call; the finished call goes to the history.
CallWith(obj, f) ==
  /\ calendarObject' = obj
  /\ fields' = f
  /\ pc' = "extract"
  /\ icalString' = Undefined
  /\ component' = Null
  /\ actualComponent' = Null
  /\ idx' = 0
  /\ outcome' = Pending
  /\ calls' = << >>
  /\ parsed' = Null
  /\ previous' = Append(previous, [calendarObject |-> calendarObject,
                                   fields |-> fields, outcome |-> outcome])

\* The same record and the same field map again.
CallAgain ==
  /\ FirstCallOver
  /\ CallWith(calendarObject, fields)

\* The text of a wrapper again, raw or in a wrapper without other fields.
CallAgainOnData ==
  /\ FirstCallOver
  /\ ~IsString(calendarObject)
  /\ "data" \in DOMAIN calendarObject
  /\ IsString(calendarObject.data)
  /\ \E obj \in {calendarObject.data, [data |-> calendarObject.data]} :
       CallWith(obj, fields)

\* A field map's keys in lower case; none of them may then coincide.
LowercasedKeys(f) == [i \in 1..Len(f) |-> <<toLowerCase(f[i][1]), f[i][2]>>]

\* The same record again with the keys of the field map in lower case.
CallAgainLowercased ==
  /\ FirstCallOver
  /\ \A i, j \in 1..Len(fields) :
       i # j => toLowerCase(fields[i][1]) # toLowerCase(fields[j][1])
  /\ CallWith(calendarObject, LowercasedKeys(fields))

\* A field map's lowercased keys are pairwise distinct.
DistinctLowercased(f) ==
  \A i, j \in 1..Len(f) : i # j => toLowerCase(f[i][1]) # toLowerCase(f[j][1])

\* The text the first call returned is updated with the same field map.
CallAgainOnOutput ==
  /\ FirstCallOver
  /\ IsReturned(outcome)
  /\ CallWith(JSString(outcome.returned), fields)

\* The node named name holds a property of that name.
Holds(node, name) == \E i \in 1..Len(node.props) : node.props[i].name = name

\* Every key of f in lower case names a property of the node.
AllKeysHeld(node, f) == \A i \in 1..Len(f) : Holds(node, toLowerCase(f[i][1]))

\* The same record again with the entries of the field map in another
\* order, every key naming a property the target of the first call held.
CallAgainReordered ==
  /\ FirstCallOver
  /\ actualComponent # Null
  /\ Len(fields) > 1
  /\ DistinctLowercased(fields)
  /\ AllKeysHeld(NodeAt(parsed, actualComponent.path), fields)
  /\ \E f \in FieldMaps :
       /\ f # fields
       /\ {f[i] : i \in 1..Len(f)} = {fields[i] : i \in 1..Len(fields)}
       /\ CallWith(calendarObject, f)

\* The same record again with the empty field map.
CallAgainWithEmptyMap ==
  /\ FirstCallOver
  /\ Len(fields) > 0
  /\ CallWith(calendarObject, << >>)

\* Calls a caller makes between two calls of interest: one that throws in
\* the loop after an entry was applied, one on a text the parser rejects,
\* one that returns, one on a wrapper without data.
OtherCalls ==
  { [calendarObject |-> Wrapper(JSString(RecordText("VCALENDAR",
                                   << <<"UID", "1">>, <<"SUMMARY", "Original">> >>,
                                   <<"VEVENT">>))),
     fields |-> << <<"SUMMARY", "Updated">>, <<"DTSTART", "20250130T140000Z">> >>],
    [calendarObject |-> JSString(<< <<"INVALID ICAL DATA">> >>),
     fields |-> << <<"SUMMARY", "Updated">> >>],
    [calendarObject |-> JSString(RecordText("VCARD", << >>, << >>)),
     fields |-> << <<"X-CUSTOM-FIELD", "value123">> >>],
    [calendarObject |-> WrapperWithoutData, fields |-> << >>] }

\* After a first call on a raw text with one entry at most: another call.
CallOther ==
  /\ FirstCallOver
  /\ IsString(calendarObject)
  /\ Len(fields) <= 1
  /\ \E y \in OtherCalls : CallWith(y.calendarObject, y.fields)

\* After the other call: the first call once more.
CallFirstAgain ==
  /\ pc = "done"
  /\ Len(previous) = 1
  /\ CallWith(previous[1].calendarObject, previous[1].fields)

\* After a first call that returned: the same record with the first
\* entries of the field map only.
CallWithFirstEntries ==
  /\ FirstCallOver
  /\ IsReturned(outcome)
  /\ \E k \in 1..(Len(fields) - 1) :
       CallWith(calendarObject, SubSeq(fields, 1, k))

\* After that: the text it returned with the remaining entries.
CallOnOutputWithLastEntries ==
  /\ pc = "done"
  /\ Len(previous) = 1
  /\ IsReturned(outcome)
  /\ CallWith(JSString(outcome.returned),
              SubSeq(previous[1].fields, Len(fields) + 1, Len(previous[1].fields)))

NextTwice == Next \/ CallAgain

SpecTwice == Init /\ [][NextTwice]_vars

NextOnData == Next \/ CallAgainOnData

SpecOnData == Init /\ [][NextOnData]_vars

NextLowercased == Next \/ CallAgainLowercased

SpecLowercased == Init /\ [][NextLowercased]_vars

NextOnOutput == Next \/ CallAgainOnOutput

SpecOnOutput == Init /\ [][NextOnOutput]_vars

NextReordered == Next \/ CallAgainReordered

SpecReordered == Init /\ [][NextReordered]_vars

NextWithEmptyMap == Next \/ CallAgainWithEmptyMap

SpecWithEmptyMap == Init /\ [][NextWithEmptyMap]_vars

NextSequence == Next \/ CallOther \/ CallFirstAgain

SpecSequence == Init /\ [][NextSequence]_vars

NextComposed == Next \/ CallWithFirstEntries \/ CallOnOutputWithLastEntries

SpecComposed == Init /\ [][NextComposed]_vars

-----------------------------------------------------------------------------
(* What the claims speak about *)

IsTree(t) == "name" \in DOMAIN t

IsWrapper(obj) == ~IsString(obj)

UpdatableKinds == {"vevent", "vtodo", "vjournal"}

\* The record parsed into a tree that is no container, or into a container
\* with an event, task or journal among its immediate children.
HasUpdateTarget(t) ==
  /\ IsTree(t)
  /\ \/ t.name # "vcalendar"
     \/ \E i \in 1..Len(t.comps) : t.comps[i].name \in UpdatableKinds

\* The lowercased keys of a field map.
KeyNames(f) == {toLowerCase(f[i][1]) : i \in 1..Len(f)}

\* Entry i is the last entry of f with its name, letter case aside.
LastOfItsName(f, i) ==
  \A j \in (i + 1)..Len(f) : toLowerCase(f[j][1]) # toLowerCase(f[i][1])

\* The properties of a node whose names are not in keys, as <<name, value>>.
RECURSIVE Kept(_, _)
Kept(props, keys) ==
  IF Len(props) = 0 THEN << >>
  ELSE (IF Head(props).name \in keys THEN << >>
        ELSE << <<Head(props).name, Head(props).value>> >>)
       \o Kept(Tail(props), keys)

\* Two trees of the same shape whose nodes hold, position by position, the
\* same properties outside keys with the same values in the same order.
RECURSIVE Preserved(_, _, _)
Preserved(in, out, keys) ==
  /\ in.name = out.name
  /\ Kept(in.props, keys) = Kept(out.props, keys)
  /\ Len(in.comps) = Len(out.comps)
  /\ \A i \in 1..Len(in.comps) : Preserved(in.comps[i], out.comps[i], keys)

\* r is the parser's result on a returned text.
PreservedInOutput(r, keys) ==
  "jCal" \in DOMAIN r /\ Preserved(parsed, r.jCal, keys)

\* The node holds a property of that name, letter case aside, whose value is
\* exactly the string.
HasProperty(node, name, value) ==
  \E i \in 1..Len(node.props) :
    /\ toLowerCase(node.props[i].name) = toLowerCase(name)
    /\ node.props[i].value = [str |-> value]

TargetNode == NodeAt(component, actualComponent.path)

ReturnedText == pc = "done" /\ IsReturned(outcome)

InvalidInputError == Threw(Thrown("Error", InvalidInputMessage))

NoUpdatableComponentError == Threw(Thrown("Error", NoUpdatableComponentMessage))

EndsWith(s, q) == Len(s) >= Len(q) /\ SubSeq(s, Len(s) - Len(q) + 1, Len(s)) = q

-----------------------------------------------------------------------------
(* Claims *)

\* C1 Preservation: in every text updateFields returns, each node of the
\* record still holds the properties whose names are not keys of the field
\* map (letter case aside), with the same values, in the same node and in
\* the same relative order as in the record.
C1_Preservation ==
  ReturnedText => PreservedInOutput(parse(outcome.returned), KeyNames(fields))

\* An update that changed the target while the target also held a property
\* no key names.
C1_Witness ==
  /\ ReturnedText
  /\ Len(fields) = 2
  /\ component # parsed
  /\ \E i \in 1..Len(NodeAt(parsed, actualComponent.path).props) :
       NodeAt(parsed, actualComponent.path).props[i].name \notin KeyNames(fields)

\* C2 as stated: after a call that returns, the update target holds for
\* every key of the field map a property of that name whose value is the
\* key's value.
C2_UpsertEveryKey ==
  ReturnedText =>
    \A i \in 1..Len(fields) : HasProperty(TargetNode, fields[i][1], fields[i][2])

\* C2 amended: after a call that returns, the update target holds, for every
\* key that no later key of the field map equals letter case aside, a
\* property of that name whose value is the key's value.
C2_UpsertLastOfEachName ==
  ReturnedText =>
    \A i \in 1..Len(fields) :
      LastOfItsName(fields, i) =>
        HasProperty(TargetNode, fields[i][1], fields[i][2])

\* Two keys that differ only in letter case were both applied.
C2_Witness ==
  /\ ReturnedText
  /\ Len(fields) = 2
  /\ fields[1][1] # fields[2][1]
  /\ toLowerCase(fields[1][1]) = toLowerCase(fields[2][1])

\* C3 Empty field map: on a record that parses and has an update target the
\* call with no entries goes through extract, parse, locate and serialize
\* and returns a text that parses into the same tree: same nodes, same
\* properties, same values, same order.
C3_EmptyMapRoundTrip ==
  (pc = "done" /\ Len(fields) = 0 /\ HasUpdateTarget(parsed)) =>
    /\ IsReturned(outcome)
    /\ calls = <<"extract", "parse", "locate", "serialize">>
    /\ PreservedInOutput(parse(outcome.returned), {})

\* A container with two children and typed properties went round.
C3_Witness ==
  /\ pc = "done"
  /\ Len(fields) = 0
  /\ IsReturned(outcome)
  /\ parsed.name = "vcalendar"
  /\ Len(parsed.comps) = 2
  /\ \E i \in 1..Len(parsed.comps[1].props) : parsed.comps[1].props[i].type = "integer"

\* C4 Non-mutation: no step of a call changes the caller's record (the
\* wrapper, its data field, its other fields) or the field map, whether the
\* call returns or throws.
C4_NonMutation ==
  [][calendarObject' = calendarObject /\ fields' = fields]_vars

\* A call on a wrapper that applied entries and returned.
C4_Witness ==
  /\ ReturnedText
  /\ IsWrapper(calendarObject)
  /\ Len(fields) = 2

\* C5 Empty raw record: a call on the empty string ends with the
\* InvalidInput error, whatever the field map, and never reaches the parser.
C5_EmptyStringInvalidInput ==
  calendarObject = JSString(EmptyText) =>
    /\ pc \in {"extract", "done"}
    /\ "parse" \notin {calls[i] : i \in 1..Len(calls)}
    /\ pc = "done" => outcome = InvalidInputError

C5_Witness ==
  /\ calendarObject = JSString(EmptyText)
  /\ pc = "done"
  /\ Len(fields) = 2

\* The data field of a wrapper is absent, empty or not a string.
UnusableData(obj) ==
  /\ IsWrapper(obj)
  /\ \/ "data" \notin DOMAIN obj
     \/ ~IsString(obj.data)
     \/ Len(obj.data.string) = 0

\* C6 as stated: a call on a wrapper whose data field is absent, empty or
\* not a string ends with the InvalidInput error and never reaches the
\* parser.
C6_UnusableDataInvalidInput ==
  UnusableData(calendarObject) =>
    /\ pc \in {"extract", "done"}
    /\ "parse" \notin {calls[i] : i \in 1..Len(calls)}
    /\ pc = "done" => outcome = InvalidInputError

\* r is the parser's result on the extracted text.
ParseFailureOf(r) ==
  "error" \in DOMAIN r =>
    /\ IsThrew(outcome)
    /\ StartsWith(outcome.threw.message, "Failed to parse iCal data: ")
    /\ EndsWith(outcome.threw.message, r.error.message)
    /\ Len(r.error.message) > 0
    /\ calls = <<"extract", "parse">>

\* C7 Parse failure: when the text is not empty and the parser rejects it,
\* the call ends with the ParseFailure error whose message carries the
\* parser's own message, and no target is located, no property set and
\* nothing serialized.
C7_ParseFailure ==
  (pc = "done" /\ IsString(icalString) /\ Len(icalString.string) > 0) =>
    ParseFailureOf(parse(icalString.string))

C7_Witness ==
  /\ pc = "done"
  /\ icalString = JSString(<< <<"INVALID ICAL DATA">> >>)
  /\ Len(fields) = 2

\* C8 No updatable component: when the root is a vcalendar without an event,
\* task or journal among its immediate children, the call ends with the
\* NoUpdatableComponent error for every field map, the empty one included.
C8_NoUpdatableComponent ==
  (pc = "done" /\ IsTree(parsed) /\ parsed.name = "vcalendar"
     /\ ~HasUpdateTarget(parsed)) =>
    outcome = NoUpdatableComponentError

\* The empty field map on a container whose only child is of another kind.
C8_Witness ==
  /\ pc = "done"
  /\ Len(fields) = 0
  /\ IsTree(parsed)
  /\ parsed.name = "vcalendar"
  /\ Len(parsed.comps) = 1
  /\ parsed.comps[1].name = "x-group"

\* The target is child t of container c, chosen by kind before position.
ChosenByPriority(c, t) ==
  LET kind == c.comps[t].name
      Has(k) == \E i \in 1..Len(c.comps) : c.comps[i].name = k
  IN  /\ kind \in UpdatableKinds
      /\ \A i \in 1..(t - 1) : c.comps[i].name # kind
      /\ kind = "vtodo" => ~Has("vevent")
      /\ kind = "vjournal" => ~Has("vevent") /\ ~Has("vtodo")

\* C9 Target selection: in a container the target is one immediate child:
\* the first event if there is an event, else the first task, else the first
\* journal, wherever the children stand; the rest of the tree is as parsed.
C9_TargetPriority ==
  (pc \in {"update", "done"} /\ IsTree(parsed) /\ parsed.name = "vcalendar"
     /\ actualComponent # Null) =>
    /\ Len(actualComponent.path) = 1
    /\ actualComponent.path[1] \in 1..Len(parsed.comps)
    /\ ChosenByPriority(parsed, actualComponent.path[1])
    /\ component.props = parsed.props
    /\ \A i \in 1..Len(parsed.comps) :
         i # actualComponent.path[1] => component.comps[i] = parsed.comps[i]

\* An event chosen although a task stands before it, and updated.
C9_Witness ==
  /\ ReturnedText
  /\ Len(fields) = 1
  /\ parsed.name = "vcalendar"
  /\ Len(parsed.comps) = 2
  /\ parsed.comps[1].name = "vtodo"
  /\ parsed.comps[2].name = "vevent"
  /\ actualComponent.path = <<2>>
  /\ component.comps[2] # parsed.comps[2]

\* C10 Standalone root: when the root is no vcalendar, whatever its name,
\* the target is the root itself, its child nodes stay as parsed, the
\* NoUpdatableComponent error is not raised, and after a call that returns
\* the root holds the value of every key (of the last one among keys equal
\* letter case aside).
C10_StandaloneRoot ==
  (IsTree(parsed) /\ parsed.name # "vcalendar") =>
    /\ pc \in {"update", "done"} => actualComponent = [path |-> << >>]
    /\ outcome # NoUpdatableComponentError
    /\ component.comps = parsed.comps
    /\ ReturnedText =>
         \A i \in 1..Len(fields) :
           LastOfItsName(fields, i) =>
             HasProperty(component, fields[i][1], fields[i][2])

\* A root of an unknown name with an event child, updated with two entries.
C10_Witness ==
  /\ ReturnedText
  /\ Len(fields) = 2
  /\ parsed.name = "x-root"
  /\ Len(parsed.comps) = 1
  /\ parsed.comps[1].name = "vevent"
  /\ component.props # parsed.props

\* r is the parser's result on a returned text, t the target's position
\* among the children: the root's properties and the other children are as
\* the parser built them from the record.
UntouchedOutsideTarget(r, t) ==
  /\ "jCal" \in DOMAIN r
  /\ r.jCal.name = parsed.name
  /\ r.jCal.props = parsed.props
  /\ Len(r.jCal.comps) = Len(parsed.comps)
  /\ \A i \in 1..Len(parsed.comps) : i # t => r.jCal.comps[i] = parsed.comps[i]

\* C11 Frame of the update: for a container record every returned text
\* holds the container's own properties and every child other than the
\* target, with all their properties, values and order, as in the record,
\* also where they hold properties that keys of the field map name.
C11_OnlyTargetTouched ==
  (ReturnedText /\ parsed.name = "vcalendar") =>
    UntouchedOutsideTarget(parse(outcome.returned), actualComponent.path[1])

\* The first of two events was updated under a key that also names a
\* property of the container and of the second event.
C11_Witness ==
  /\ ReturnedText
  /\ parsed.name = "vcalendar"
  /\ Len(parsed.comps) = 2
  /\ parsed.comps[1].name = "vevent"
  /\ parsed.comps[2].name = "vevent"
  /\ actualComponent.path = <<1>>
  /\ "summary" \in KeyNames(fields)
  /\ \E i \in 1..Len(parsed.props) : parsed.props[i].name = "summary"
  /\ \E i \in 1..Len(parsed.comps[2].props) : parsed.comps[2].props[i].name = "summary"
  /\ component.comps[1] # parsed.comps[1]

\* One upsert of (name, value) led from node before to node after: a first
\* property of that name kept its place and type and took the value, nothing
\* else changing; or, the node holding none, one property of that name and
\* value was added behind the others.
UpsertedOne(before, after, name, value) ==
  /\ after.name = before.name
  /\ after.comps = before.comps
  /\ IF \E i \in 1..Len(before.props) : before.props[i].name = name
     THEN /\ Len(after.props) = Len(before.props)
          /\ \E i \in 1..Len(before.props) :
               /\ before.props[i].name = name
               /\ \A j \in 1..(i - 1) : before.props[j].name # name
               /\ after.props =
                    [before.props EXCEPT ![i].value = [str |-> value]]
     ELSE /\ Len(after.props) = Len(before.props) + 1
          /\ SubSeq(after.props, 1, Len(before.props)) = before.props
          /\ after.props[Len(after.props)].name = name
          /\ after.props[Len(after.props)].value = [str |-> value]

\* The property names of a node after the entries of f from the i-th on.
RECURSIVE NamesAfter(_, _, _)
NamesAfter(names, f, i) ==
  IF i > Len(f) THEN names
  ELSE NamesAfter(IF \E j \in 1..Len(names) : names[j] = toLowerCase(f[i][1])
                  THEN names
                  ELSE Append(names, toLowerCase(f[i][1])),
                  f, i + 1)

NamesOf(node) == [i \in 1..Len(node.props) |-> node.props[i].name]

\* r is the parser's result on a returned text.
TargetNamesInOutput(r) ==
  /\ "jCal" \in DOMAIN r
  /\ NamesOf(NodeAt(r.jCal, actualComponent.path))
       = NamesAfter(NamesOf(NodeAt(parsed, actualComponent.path)), fields, 1)

\* C12 Upsert per key: every turn of the loop that does not throw is one
\* upsert on the target (an existing property keeps its position and only
\* its value changes; a missing one is appended after all the others), and
\* in a returned text the target's properties stand in that order: those of
\* the record first, then the new names in the order of the field map.
C12_UpsertPerKey ==
  /\ [][(pc = "update" /\ idx <= Len(fields) /\ pc' = "update") =>
          UpsertedOne(TargetNode, TargetNode', toLowerCase(fields[idx][1]),
                      fields[idx][2])]_vars
  /\ [](ReturnedText => TargetNamesInOutput(parse(outcome.returned)))

\* A target holding a summary and no vendor extension took both.
C12_Witness ==
  /\ ReturnedText
  /\ KeyNames(fields) = {"summary", "x-custom-field"}
  /\ \E i \in 1..Len(NodeAt(parsed, actualComponent.path).props) :
       NodeAt(parsed, actualComponent.path).props[i].name = "summary"
  /\ Len(TargetNode.props) = Len(NodeAt(parsed, actualComponent.path).props) + 1
  /\ TargetNode.props[Len(TargetNode.props)].name = "x-custom-field"

\* The call that is over was the caller's second one.
SecondCallOver == pc = "done" /\ Len(previous) = 1

\* The first call was given a wrapper around a text, with other fields, and
\* the second one that text, raw or in a wrapper without other fields.
SecondCallOnData ==
  /\ SecondCallOver
  /\ IsWrapper(previous[1].calendarObject)
  /\ "data" \in DOMAIN previous[1].calendarObject
  /\ IsString(previous[1].calendarObject.data)
  /\ calendarObject \in {previous[1].calendarObject.data,
                         [data |-> previous[1].calendarObject.data]}
  /\ fields = previous[1].fields

\* C13 Wrapper and raw shape: a call on a wrapper {data: s, etag, url} and a
\* call on s itself, or on {data: s}, with the same field map have the same
\* outcome: the same returned text or the same error.
C13_WrapperEqualsRaw ==
  SecondCallOnData => outcome = previous[1].outcome

\* Both calls returned a text, the second one called on the raw text.
C13_Witness ==
  /\ SecondCallOnData
  /\ IsString(calendarObject)
  /\ IsReturned(outcome)
  /\ Len(fields) = 2

\* The second call was given the record and the field map of the first.
SecondCallSame ==
  /\ SecondCallOver
  /\ calendarObject = previous[1].calendarObject
  /\ fields = previous[1].fields

C15_NoValidationNoError ==
  (pc = "done" /\ HasUpdateTarget(parsed)) => IsReturned(outcome)

\* The kind of a thrown error, told by its message.
ErrorKind(e) ==
  IF e.message = InvalidInputMessage THEN "InvalidInput"
  ELSE IF StartsWith(e.message, ParseFailurePrefix) THEN "ParseFailure"
  ELSE IF e.message = NoUpdatableComponentMessage THEN "NoUpdatableComponent"
  ELSE "other"

\* C16 as stated: a call that returns no text has thrown an error of one of
\* the three kinds InvalidInput, ParseFailure and NoUpdatableComponent.
C16_ClosedTaxonomy ==
  (pc = "done" /\ ~IsReturned(outcome)) =>
    /\ IsThrew(outcome)
    /\ ErrorKind(outcome.threw) \in {"InvalidInput", "ParseFailure", "NoUpdatableComponent"}

\* r is the parser's result on a returned text: the target holds the value
\* of every entry, of the last one among entries whose keys are equal letter
\* case aside.
EveryEntryInOutput(r) ==
  /\ "jCal" \in DOMAIN r
  /\ \A i \in 1..Len(fields) :
       LastOfItsName(fields, i) =>
         HasProperty(NodeAt(r.jCal, actualComponent.path), fields[i][1], fields[i][2])

\* The steps of a call that went through every entry and serialized.
CompleteRun ==
  <<"extract", "parse", "locate">> \o [i \in 1..Len(fields) |-> "update"]
  \o <<"serialize">>

\* C17 All or nothing: a call that is over has returned a text or thrown an
\* error, never both; a returned text comes after one loop turn for every
\* entry and holds every entry's value on the target; a thrown error ends
\* the call at once: no further step is taken and nothing is serialized.
C17_AllOrNothing ==
  /\ [](pc = "done" => (IsReturned(outcome) \/ IsThrew(outcome)))
  /\ [](IsReturned(outcome) =>
          /\ calls = CompleteRun
          /\ EveryEntryInOutput(parse(outcome.returned)))
  /\ [](IsThrew(outcome) =>
          /\ pc = "done"
          /\ \A i \in 1..Len(calls) : calls[i] # "serialize")
  /\ [][IsThrew(outcome) => UNCHANGED <<outcome, component, calls>>]_vars

\* A call whose second entry the engine refused after the first was applied.
C17_Witness ==
  /\ pc = "done"
  /\ IsThrew(outcome)
  /\ Len(fields) = 2
  /\ calls = <<"extract", "parse", "locate", "update", "update">>
  /\ component # parsed

\* The second call was given the record of the first and its field map
\* with every key in lower case.
SecondCallLowercased ==
  /\ SecondCallOver
  /\ calendarObject = previous[1].calendarObject
  /\ fields = LowercasedKeys(previous[1].fields)

\* The properties of a node whose name is name, letter case aside.
InstancesAnyCase(node, name) ==
  {i \in 1..Len(node.props) : toLowerCase(node.props[i].name) = toLowerCase(name)}

\* C18 Keys in any letter case: a call has the outcome of the call on the
\* same record with the keys in lower case, and a key in any letter case
\* whose name the target holds replaces a value: the target holds as many
\* properties of that name after the call as before.
C18_KeysCaseInsensitive ==
  /\ SecondCallLowercased => outcome = previous[1].outcome
  /\ ReturnedText =>
       \A i \in 1..Len(fields) :
         InstancesAnyCase(NodeAt(parsed, actualComponent.path), fields[i][1]) # {} =>
           Cardinality(InstancesAnyCase(TargetNode, fields[i][1]))
             = Cardinality(InstancesAnyCase(NodeAt(parsed, actualComponent.path),
                                            fields[i][1]))

\* A key in upper case replaced a summary, and so did the key in lower case.
C18_Witness ==
  /\ SecondCallLowercased
  /\ IsReturned(outcome)
  /\ previous[1].fields = << <<"SUMMARY", "Updated">> >>
  /\ fields = << <<"summary", "Updated">> >>
  /\ InstancesAnyCase(NodeAt(parsed, actualComponent.path), "summary") # {}

InstancesOf(node, name) == {i \in 1..Len(node.props) : node.props[i].name = name}

\* Of the several properties of that name in node before, the first one
\* holds the value in node after and the others are as they were, each at
\* its place; after holds no further property of that name.
FirstInstanceOnly(before, after, name, value) ==
  /\ InstancesOf(after, name) = InstancesOf(before, name)
  /\ \A i \in InstancesOf(before, name) :
       IF \E j \in InstancesOf(before, name) : j < i
       THEN after.props[i] = before.props[i]
       ELSE after.props[i].value = [str |-> value]

\* r is the parser's result on a returned text.
RepeatedInstancesInOutput(r) ==
  /\ "jCal" \in DOMAIN r
  /\ \A i \in 1..Len(fields) :
       (/\ LastOfItsName(fields, i)
        /\ Cardinality(InstancesOf(NodeAt(parsed, actualComponent.path),
                                   toLowerCase(fields[i][1]))) > 1) =>
         FirstInstanceOnly(NodeAt(parsed, actualComponent.path),
                           NodeAt(r.jCal, actualComponent.path),
                           toLowerCase(fields[i][1]), fields[i][2])

\* C19 Single instance: when the target holds several properties of a key's
\* name, the returned text holds the new value in the first of them only;
\* the other instances keep value and position and their number is the
\* same: nothing is merged, removed or added.
C19_SingleInstance ==
  ReturnedText => RepeatedInstancesInOutput(parse(outcome.returned))

\* A target with two summaries was updated under the key summary.
C19_Witness ==
  /\ ReturnedText
  /\ "summary" \in KeyNames(fields)
  /\ Cardinality(InstancesOf(NodeAt(parsed, actualComponent.path), "summary")) = 2
  /\ component # parsed

\* The steps taken so far are the first ones of: extract, parse, locate, one
\* loop turn per entry at most, serialize.
StepsInOrder ==
  /\ Len(calls) <= Len(CompleteRun)
  /\ \A i \in 1..Len(calls) :
       \/ calls[i] = CompleteRun[i]
       \/ /\ calls[i] = "serialize"
          /\ i = Len(calls)
          /\ i = Len(CompleteRun)

\* C20 Order of the steps: the steps are taken in the order extract, parse,
\* locate, loop turns, serialize, the serialization only after a turn for
\* every entry; a value the input check refuses is never parsed, and the
\* call ends with InvalidInput after the extraction alone, with ParseFailure
\* after the parsing and before any target is located, with
\* NoUpdatableComponent after the location and before any loop turn.
C20_StepOrder ==
  /\ StepsInOrder
  /\ "serialize" \in {calls[i] : i \in 1..Len(calls)} => calls = CompleteRun
  /\ (pc # "extract" /\ Falsy(icalString)) =>
       outcome = InvalidInputError /\ calls = <<"extract">>
  /\ (pc = "done" /\ IsThrew(outcome)) =>
       /\ ErrorKind(outcome.threw) = "InvalidInput" => calls = <<"extract">>
       /\ ErrorKind(outcome.threw) = "ParseFailure" =>
            calls = <<"extract", "parse">> /\ actualComponent = Null
       /\ ErrorKind(outcome.threw) = "NoUpdatableComponent" =>
            calls = <<"extract", "parse", "locate">> /\ component = parsed

\* A container without a target, given two entries: none was applied.
C20_Witness ==
  /\ pc = "done"
  /\ outcome = NoUpdatableComponentError
  /\ Len(fields) = 2
  /\ calls = <<"extract", "parse", "locate">>

\* The call has gone through the location of its target.
Located == \E i \in 1..Len(calls) : calls[i] = "locate"

\* The text opens a component whose name is vcalendar in some letter case.
OpensContainer(text) ==
  /\ Len(text) > 0
  /\ Len(text[1]) = 2
  /\ toLowerCase(text[1][1]) = "begin"
  /\ toLowerCase(text[1][2]) = "vcalendar"

\* C21 Container detection: a text whose root is named vcalendar in any
\* letter case (VCALENDAR, vcalendar, VCalendar) is treated as a container:
\* the target is an event, task or journal child, or the call ends with
\* NoUpdatableComponent; the root itself is never the target and keeps its
\* properties.
C21_ContainerAnyCase ==
  (Located /\ IsString(icalString) /\ OpensContainer(icalString.string)) =>
    /\ actualComponent # [path |-> << >>]
    /\ component.props = parsed.props
    /\ IF actualComponent = Null
       THEN outcome = NoUpdatableComponentError
       ELSE /\ Len(actualComponent.path) = 1
            /\ NodeAt(parsed, actualComponent.path).name \in UpdatableKinds

\* A VCalendar root with a VEvent child: the child was updated.
C21_Witness ==
  /\ ReturnedText
  /\ icalString.string[1] = <<"BEGIN", "VCalendar">>
  /\ icalString.string[Len(ContainerProps) + 2] = <<"BEGIN", "VEvent">>
  /\ actualComponent = [path |-> <<1>>]
  /\ component.comps[1] # parsed.comps[1]
  /\ Len(fields) = 2

\* C22 Immediate children only: the target of a container is one of its
\* immediate children; a container that holds events, tasks or journals
\* only deeper down ends with NoUpdatableComponent, and no node below an
\* immediate child is ever changed.
C22_ImmediateChildrenOnly ==
  (Located /\ parsed.name = "vcalendar") =>
    /\ actualComponent # Null =>
         /\ Len(actualComponent.path) = 1
         /\ parsed.comps[actualComponent.path[1]].name \in UpdatableKinds
    /\ (\A i \in 1..Len(parsed.comps) : parsed.comps[i].name \notin UpdatableKinds) =>
         /\ actualComponent = Null
         /\ outcome = NoUpdatableComponentError
    /\ \A i \in 1..Len(parsed.comps) : component.comps[i].comps = parsed.comps[i].comps

\* A group holding an event stands before a task: the task was updated.
C22_Witness ==
  /\ ReturnedText
  /\ parsed.name = "vcalendar"
  /\ Len(parsed.comps) = 2
  /\ parsed.comps[1].name = "x-group"
  /\ parsed.comps[1].comps[1].name = "vevent"
  /\ parsed.comps[2].name = "vtodo"
  /\ actualComponent = [path |-> <<2>>]
  /\ component.comps[2] # parsed.comps[2]

\* The third call of a caller is over and was given the record and the
\* field map of the first, another call standing between them.
FirstCallRepeated ==
  /\ pc = "done"
  /\ Len(previous) = 2
  /\ calendarObject = previous[1].calendarObject
  /\ fields = previous[1].fields

RECURSIVE ShapeOf(_)
ShapeOf(text) ==
  IF Len(text) = 0 THEN << >>
  ELSE (IF Len(Head(text)) >= 2 /\ toUpperCase(Head(text)[1]) \in {"BEGIN", "END"}
        THEN << <<toUpperCase(Head(text)[1]), toUpperCase(Head(text)[2])>> >>
        ELSE << >>)
       \o ShapeOf(Tail(text))

\* C24 Root shape: a returned text opens and closes the components the
\* record's text opens and closes, in the same order and nesting: the root
\* has the type name of the record's root and the same children by type
\* name and order; a container stays a container, a standalone record
\* standalone.
C24_SameRootShape ==
  ReturnedText =>
    /\ ShapeOf(outcome.returned) = ShapeOf(icalString.string)
    /\ outcome.returned[1] = <<"BEGIN", toUpperCase(parsed.name)>>
    /\ outcome.returned[Len(outcome.returned)] = <<"END", toUpperCase(parsed.name)>>

\* A vcard with an event below it, updated: still a vcard with that event.
C24_Witness ==
  /\ ReturnedText
  /\ parsed.name = "vcard"
  /\ Len(parsed.comps) = 1
  /\ parsed.comps[1].name = "vevent"
  /\ Len(fields) = 2
  /\ component # parsed

\* The second call was given the text the first call returned and the field
\* map of the first call.
SecondCallOnOutput ==
  /\ SecondCallOver
  /\ IsReturned(previous[1].outcome)
  /\ calendarObject = JSString(previous[1].outcome.returned)
  /\ fields = previous[1].fields

\* a and b are the parser's results on two texts: the same tree.
SameTree(a, b) == "jCal" \in DOMAIN a /\ a = b

\* C25 Idempotence: applying a field map to the text a successful call with
\* that field map returned succeeds and returns a text with the same tree:
\* the second application adds no property and changes none.
C25_Idempotent ==
  SecondCallOnOutput =>
    /\ IsReturned(outcome)
    /\ SameTree(parse(outcome.returned), parse(previous[1].outcome.returned))

\* The second application met the property the first one had appended.
C25_Witness ==
  /\ SecondCallOnOutput
  /\ IsReturned(outcome)
  /\ Len(fields) = 2
  /\ Holds(NodeAt(parsed, actualComponent.path), "x-custom-field")
  /\ \E i \in 1..Len(previous[1].calendarObject.string) :
       previous[1].calendarObject.string[i][1] = "SUMMARY"
  /\ \A i \in 1..Len(previous[1].calendarObject.string) :
       previous[1].calendarObject.string[i][1] # "X-CUSTOM-FIELD"

\* The number of properties of every node of a tree.
RECURSIVE CountsOf(_)
CountsOf(node) ==
  [props |-> Len(node.props),
   comps |-> [i \in 1..Len(node.comps) |-> CountsOf(node.comps[i])]]

\* The same, the node at path counted with extra properties more.
RECURSIVE CountsWithMoreAt(_, _, _)
CountsWithMoreAt(node, path, extra) ==
  [props |-> Len(node.props) + (IF Len(path) = 0 THEN extra ELSE 0),
   comps |-> [i \in 1..Len(node.comps) |->
                IF Len(path) > 0 /\ i = path[1]
                THEN CountsWithMoreAt(node.comps[i], Tail(path), extra)
                ELSE CountsOf(node.comps[i])]]

\* The lowercased keys of the field map that name no property of the node.
NewNames(node, f) == {k \in KeyNames(f) : ~Holds(node, k)}

\* C26 No property removed: after a call that returns, the target holds as
\* many properties as before plus one for each distinct lowercased key it
\* did not hold, every other node holds as many as before, and the returned
\* text has that many lines more than the record's text.
C26_PropertyCount ==
  ReturnedText =>
    /\ CountsOf(component)
         = CountsWithMoreAt(parsed, actualComponent.path,
             Cardinality(NewNames(NodeAt(parsed, actualComponent.path), fields)))
    /\ Len(outcome.returned)
         = Len(icalString.string)
           + Cardinality(NewNames(NodeAt(parsed, actualComponent.path), fields))

\* A target with two summaries took a summary and a vendor extension.
C26_Witness ==
  /\ ReturnedText
  /\ KeyNames(fields) = {"summary", "x-custom-field"}
  /\ Cardinality(InstancesOf(NodeAt(parsed, actualComponent.path), "summary")) = 2
  /\ NewNames(NodeAt(parsed, actualComponent.path), fields) = {"x-custom-field"}
  /\ Len(parsed.comps) = 2

\* Entries i and j of the field map, i before j, have keys that differ in
\* letter case only, and no later entry has that name.
CollidingKeys(i, j) ==
  /\ i < j
  /\ toLowerCase(fields[i][1]) = toLowerCase(fields[j][1])
  /\ LastOfItsName(fields, j)

\* The value is held by a property of the tree.
RECURSIVE HeldSomewhere(_, _)
HeldSomewhere(node, value) ==
  \/ \E i \in 1..Len(node.props) : node.props[i].value = [str |-> value]
  \/ \E i \in 1..Len(node.comps) : HeldSomewhere(node.comps[i], value)

\* r is the parser's result on a returned text: its target holds one
\* property of the name of entry j, with the value of entry j, and the value
\* of entry i is nowhere in it.
OnePropertyLaterValue(r, i, j) ==
  /\ "jCal" \in DOMAIN r
  /\ \E p \in InstancesOf(NodeAt(r.jCal, actualComponent.path), toLowerCase(fields[j][1])) :
       /\ InstancesOf(NodeAt(r.jCal, actualComponent.path), toLowerCase(fields[j][1])) = {p}
       /\ NodeAt(r.jCal, actualComponent.path).props[p].value = [str |-> fields[j][2]]
  /\ ~HeldSomewhere(r.jCal, fields[i][2])

RECURSIVE HeldOnlyWhereItWas(_, _, _)
HeldOnlyWhereItWas(in, out, value) ==
  /\ \A i \in 1..Len(out.props) :
       out.props[i].value = [str |-> value] =>
         i <= Len(in.props) /\ in.props[i].value = [str |-> value]
  /\ \A i \in 1..Len(out.comps) :
       i <= Len(in.comps) /\ HeldOnlyWhereItWas(in.comps[i], out.comps[i], value)

\* r is the parser's result on a returned text: in its target the first
\* property of the name of entry j holds the value of entry j, the target
\* holds as many properties of that name as the record's did, or one, the
\* further ones as they were, and the value of entry i is held only where
\* the record held it.
FirstPropertyLaterValue(r, i, j) ==
  /\ "jCal" \in DOMAIN r
  /\ LET before == NodeAt(parsed, actualComponent.path)
         after  == NodeAt(r.jCal, actualComponent.path)
         name   == toLowerCase(fields[j][1])
     IN  IF InstancesOf(before, name) = {}
         THEN \E p \in InstancesOf(after, name) :
                /\ InstancesOf(after, name) = {p}
                /\ after.props[p].value = [str |-> fields[j][2]]
         ELSE FirstInstanceOnly(before, after, name, fields[j][2])
  /\ HeldOnlyWhereItWas(parsed, r.jCal, fields[i][2])

SecondCallReordered ==
  /\ SecondCallOver
  /\ calendarObject = previous[1].calendarObject
  /\ fields # previous[1].fields
  /\ {fields[i] : i \in 1..Len(fields)}
       = {previous[1].fields[i] : i \in 1..Len(previous[1].fields)}
  /\ DistinctLowercased(fields)
  /\ AllKeysHeld(NodeAt(parsed, actualComponent.path), fields)

\* The names of the properties the target has gained since it was parsed.
AppendedNames ==
  SubSeq(NamesOf(TargetNode),
         Len(NodeAt(parsed, actualComponent.path).props) + 1,
         Len(TargetNode.props))

\* C28 Order dependence: when every key, lowercased, is distinct and names a
\* property the target holds, the call returns the same text whatever the
\* order of the map's entries; and the properties a call appends for absent
\* keys stand after the record's in the order of the map.
C28_OrderOnlyForAppended ==
  /\ (SecondCallReordered /\ IsReturned(previous[1].outcome)) =>
       outcome = previous[1].outcome
  /\ ReturnedText =>
       AppendedNames = NamesAfter(<< >>, SelectSeq(fields,
                         LAMBDA e : ~Holds(NodeAt(parsed, actualComponent.path),
                                           toLowerCase(e[1]))), 1)

\* Two held properties were updated in both orders and the text came out the
\* same.
C28_Witness ==
  /\ SecondCallReordered
  /\ IsReturned(outcome)
  /\ outcome.returned # icalString.string

\* A call with a field map returned; a second call was given the same
\* record with the first entries of that map, and a third one the text the
\* second returned with the remaining entries.
ThirdCallComposed ==
  /\ pc = "done"
  /\ Len(previous) = 2
  /\ IsReturned(previous[1].outcome)
  /\ IsReturned(previous[2].outcome)
  /\ previous[2].calendarObject = previous[1].calendarObject
  /\ calendarObject = JSString(previous[2].outcome.returned)
  /\ previous[2].fields \o fields = previous[1].fields

\* C29 Composition: for two field maps without a common key, updating a
\* record with the first and the returned text with the second succeeds and
\* returns a text with the same tree as one call with the entries of the
\* first map followed by those of the second.
C29_Composition ==
  ThirdCallComposed =>
    /\ IsReturned(outcome)
    /\ SameTree(parse(outcome.returned), parse(previous[1].outcome.returned))

\* Both halves changed the record: the second met the text of the first.
C29_Witness ==
  /\ ThirdCallComposed
  /\ IsReturned(outcome)
  /\ IsString(previous[2].calendarObject)
  /\ previous[2].outcome.returned # previous[2].calendarObject.string
  /\ outcome.returned # previous[2].outcome.returned

\* The kind of a finished call's outcome: the name of the error it threw,
\* or none when it returned.
OutcomeKind(o) == IF IsThrew(o) THEN ErrorKind(o.threw) ELSE "none"

\* The second call was given the record of the first and the empty field
\* map.
SecondCallWithEmptyMap ==
  /\ SecondCallOver
  /\ calendarObject = previous[1].calendarObject
  /\ fields = << >>
  /\ previous[1].fields # << >>

\* C30 Error kind and the field map: whether a call throws InvalidInput,
\* ParseFailure or NoUpdatableComponent, and which of them, is decided by the
\* record alone: the same record with the empty field map throws one of the
\* three exactly when the call with any other field map did, and the same
\* one with the same message.
C30_ErrorKindFromRecord ==
  SecondCallWithEmptyMap =>
    /\ OutcomeKind(outcome) \in {"none", "InvalidInput", "ParseFailure",
                                 "NoUpdatableComponent"}
    /\ IF OutcomeKind(previous[1].outcome) = "other"
       THEN OutcomeKind(outcome) = "none"
       ELSE outcome = previous[1].outcome \/
            (IsReturned(outcome) /\ IsReturned(previous[1].outcome))

\* A record without an updatable component was refused with a field map of
\* two entries as with none.
C30_Witness ==
  /\ SecondCallWithEmptyMap
  /\ Len(previous[1].fields) = 2
  /\ outcome = NoUpdatableComponentError

====
